---- MODULE Spec2Model ----
(***************************************************************************)
(* Model of staticfiles/admin/js/multilang.js: the multilingual tab        *)
(* controller of the admin form.  The document is the sequence of the      *)
(* form's fieldsets; the script runs once at document-ready, builds the    *)
(* tab strip, and then reacts to header clicks, key presses and the        *)
(* deferred error scan.                                                    *)
(***************************************************************************)
EXTENDS Integers, Sequences, FiniteSets, TLC

\* Largest number of fieldsets on a page.
MaxFieldsets == 3

\* e.which of the digit keys the keydown handler tests.
Key1 == 49
Key2 == 50
\* The key presses: <<ctrlKey or metaKey, which>>.  The two shortcuts, a digit
\* the handler does not recognise, and a digit without a modifier.
KeyPresses == {<<TRUE, Key1>>, <<TRUE, Key2>>, <<TRUE, 51>>, <<FALSE, Key2>>}

VARIABLES
    page,          \* the markup served for this form (never changes)
    fieldsets,     \* the live fieldsets, in document order
    doc,           \* top-level nodes in document order: the fieldsets and div.lang-tabs
    tabHeaders,    \* children of div.tab-headers, in order
    tabContents,   \* children of div.tab-contents, in order
    localStorage,  \* the origin's storage: a function from keys to strings
    handlers,      \* what is bound: click handlers, the keydown handler, the pending timer
    pc,            \* "loading" before document-ready, "ready" after
    last,          \* the last callback that ran, and its input
    scans,         \* how often showTabWithErrors has run in this page load
    lastClick,     \* the language of the most recent header click in any page load, "" if none
    input          \* a click or key press has happened in this page load

vars == <<page, fieldsets, doc, tabHeaders, tabContents, localStorage, handlers, pc, last,
          scans, lastClick, input>>

----------------------------------------------------------------------------
\* Markup

\* A child of a fieldset: either a .module element or a plain form row; it may
\* contain an .errorlist / .error element.  from is the fieldset it was
\* rendered in.
Node(i, m, e) == [from |-> i, module |-> m, error |-> e]

\* The fieldsets a page may be rendered with: class attribute and children.
\* An "en" group has an error marker either in a row that moves to the panel
\* or in a row that stays behind because only its .module moves.
FieldsetKinds ==
    { [classes |-> <<"lang-tab", "lang-en">>, kids |-> <<"errrow">>],
      [classes |-> <<"lang-tab", "lang-en">>, kids |-> <<"module", "errrow">>],
      [classes |-> <<"lang-tab", "lang-mk">>, kids |-> <<"row">>],
      [classes |-> <<"lang-tab", "lang-mk">>, kids |-> <<"errrow">>],
      [classes |-> <<"lang-tab", "lang-fr">>, kids |-> <<"row">>],
      [classes |-> <<"lang-en", "lang-tab", "lang-mk">>, kids |-> <<"row">>],
      [classes |-> <<"aligned", "lang-en">>, kids |-> <<"errrow">>] }

\* Values the storage key may hold when the page loads.
StoredValues == {"", "en", "mk", "fr"}

Kid(i, k) == Node(i, k = "module", k = "errrow")

Render(kinds) ==
    [i \in DOMAIN kinds |->
        [classes  |-> kinds[i].classes,
         children |-> [j \in DOMAIN kinds[i].kids |-> Kid(i, kinds[i].kids[j])],
         hidden   |-> FALSE]]

Pages == UNION { [1..n -> FieldsetKinds] : n \in 0..MaxFieldsets }

Storages == { [k \in {} |-> ""] } \cup { [k \in {"selectedLangTab"} |-> v] : v \in StoredValues }

FieldsetNode(i) == [tag |-> "fieldset", id |-> i]
TabsContainer == [tag |-> "div.lang-tabs", id |-> 0]

NoEvent == [op |-> "none", lang |-> "", which |-> 0, mod |-> FALSE]

NoHandlers == [click |-> {}, keydown |-> FALSE, timer |-> FALSE]

----------------------------------------------------------------------------
\* localStorage

\* saveSelectedTab with the setItem call lost.
saveSelectedTab_dropped(ls, tabId) == ls

saveSelectedTab(ls, tabId) ==
    [k \in DOMAIN ls \cup {"selectedLangTab"} |->
        IF k = "selectedLangTab" THEN tabId ELSE ls[k]]

\* getSelectedTab reading a key that is never written.
getSelectedTab_wrongKey(ls) ==
    IF "selectedTab" \in DOMAIN ls /\ ls["selectedTab"] # ""
    THEN ls["selectedTab"]
    ELSE "en"

\* getItem gives null for a missing key; null and "" are falsy.
getSelectedTab(ls) ==
    IF "selectedLangTab" \in DOMAIN ls /\ ls["selectedLangTab"] # ""
    THEN ls["selectedLangTab"]
    ELSE "en"

----------------------------------------------------------------------------
\* switchToTab

removeClassActive(elems) ==
    [i \in DOMAIN elems |-> [elems[i] EXCEPT !.active = FALSE]]

addClassActive(elems, langCode) ==
    [i \in DOMAIN elems |->
        IF elems[i].lang = langCode THEN [elems[i] EXCEPT !.active = TRUE] ELSE elems[i]]

\* switchToTab with the addClass call on the panel lost.
switchToTab_headersOnly(ui, langCode) ==
    [headers  |-> addClassActive(removeClassActive(ui.headers), langCode),
     contents |-> removeClassActive(ui.contents)]

\* switchToTab returning early when the code has no header.
switchToTab_guarded(ui, langCode) ==
    IF \E h \in DOMAIN ui.headers : ui.headers[h].lang = langCode
    THEN [headers  |-> addClassActive(removeClassActive(ui.headers), langCode),
          contents |-> addClassActive(removeClassActive(ui.contents), langCode)]
    ELSE ui

toggleClassActive(elems, langCode) ==
    [i \in DOMAIN elems |->
        IF elems[i].lang = langCode
        THEN [elems[i] EXCEPT !.active = ~elems[i].active]
        ELSE [elems[i] EXCEPT !.active = FALSE]]

\* switchToTab with toggleClass on the selected tab in place of
\* removeClass on all and addClass on the selected one.
switchToTab_toggle(ui, langCode) ==
    [headers  |-> toggleClassActive(ui.headers, langCode),
     contents |-> toggleClassActive(ui.contents, langCode)]

\* switchToTab without the two removeClass calls.
switchToTab_keepActive(ui, langCode) ==
    [headers  |-> addClassActive(ui.headers, langCode),
     contents |-> addClassActive(ui.contents, langCode)]

\* ui is the pair of strips; the result is the pair after the call.
switchToTab(ui, langCode) ==
    [headers  |-> addClassActive(removeClassActive(ui.headers), langCode),
     contents |-> addClassActive(removeClassActive(ui.contents), langCode)]

\* switchToTab with a setItem call added.
switchToTabStorage_saves(ls, langCode) ==
    [k \in DOMAIN ls \cup {"selectedLangTab"} |->
        IF k = "selectedLangTab" THEN langCode ELSE ls[k]]

\* localStorage after switchToTab(langCode): the function never touches it.
switchToTabStorage(ls, langCode) == ls

----------------------------------------------------------------------------
\* showTabWithErrors

hasErrors(tabContent) ==
    \E j \in DOMAIN tabContent.content : tabContent.content[j].error

RECURSIVE scanFrom(_, _)
scanFrom(ui, i) ==
    IF i > Len(ui.contents) THEN ui
    ELSE IF hasErrors(ui.contents[i])
         THEN switchToTab(ui, ui.contents[i].lang)
         ELSE scanFrom(ui, i + 1)

\* showTabWithErrors with the test for error markers lost: the first panel is
\* switched to.
showTabWithErrors_noTest(ui) ==
    IF Len(ui.contents) > 0 THEN switchToTab(ui, ui.contents[1].lang) ELSE ui

\* showTabWithErrors without the "return false": every panel with errors is
\* switched to in turn, so the last one wins.
RECURSIVE scanAllFrom(_, _)
scanAllFrom(ui, i) ==
    IF i > Len(ui.contents) THEN ui
    ELSE IF hasErrors(ui.contents[i])
         THEN scanAllFrom(switchToTab(ui, ui.contents[i].lang), i + 1)
         ELSE scanAllFrom(ui, i + 1)

showTabWithErrors_noBreak(ui) == scanAllFrom(ui, 1)

showTabWithErrors(ui) == scanFrom(ui, 1)

\* localStorage after showTabWithErrors: that of its one switchToTab call, if any.
RECURSIVE scanStorageFrom(_, _, _)
scanStorageFrom(ui, ls, i) ==
    IF i > Len(ui.contents) THEN ls
    ELSE IF hasErrors(ui.contents[i])
         THEN switchToTabStorage(ls, ui.contents[i].lang)
         ELSE scanStorageFrom(ui, ls, i + 1)

showTabWithErrorsStorage(ui, ls) == scanStorageFrom(ui, ls, 1)

\* The timer as setInterval would leave it: still pending after it has fired.
afterTimeout_interval(h) == h

\* The one-shot timer once it has fired.
afterTimeout(h) == [h EXCEPT !.timer = FALSE]

----------------------------------------------------------------------------
\* initMultilingualTabs

\* The languages configuration (the second display name is transliterated).
Languages ==
    << [code |-> "en", name |-> "English", class |-> "lang-en"],
       [code |-> "mk", name |-> "Makedonski", class |-> "lang-mk"] >>

hasClass(el, c) == \E k \in DOMAIN el.classes : el.classes[k] = c

\* The selection with a selector that matches any per-language class.
selectLangTab_anyLangClass(fs) ==
    SelectSeq([i \in 1..Len(fs) |-> i],
              LAMBDA i : \E c \in {"lang-tab", "lang-en", "lang-mk"} : hasClass(fs[i], c))

\* $('.lang-tab'): the indices of the matching fieldsets, in document order.
selectLangTab(fs) ==
    SelectSeq([i \in 1..Len(fs) |-> i], LAMBDA i : hasClass(fs[i], "lang-tab"))

\* className.startsWith('lang-') over the class names pages are rendered with.
startsWithLang(className) ==
    className \in {"lang-tab", "lang-en", "lang-mk", "lang-fr"}

\* className.replace('lang-', '') for a name that starts with it.
replaceLang(className) ==
    CASE className = "lang-en"  -> "en"
      [] className = "lang-mk"  -> "mk"
      [] className = "lang-fr"  -> "fr"
      [] className = "lang-tab" -> "tab"
      [] OTHER                  -> className

emptyLangGroups == [c \in {Languages[l].code : l \in DOMAIN Languages} |-> <<>>]

\* The loop body with unshift in place of push.
pushClass_unshift(langGroups, className, i) ==
    IF startsWithLang(className) /\ className # "lang-tab"
    THEN LET langCode == replaceLang(className)
         IN  IF langCode \in DOMAIN langGroups
             THEN [langGroups EXCEPT ![langCode] = <<i>> \o @]
             ELSE langGroups
    ELSE langGroups

\* The body of the loop over the classes of fieldset i.
pushClass(langGroups, className, i) ==
    IF startsWithLang(className) /\ className # "lang-tab"
    THEN LET langCode == replaceLang(className)
         IN  IF langCode \in DOMAIN langGroups
             THEN [langGroups EXCEPT ![langCode] = Append(@, i)]
             ELSE langGroups
    ELSE langGroups

RECURSIVE categorizeClasses(_, _, _, _)
categorizeClasses(langGroups, classes, k, i) ==
    IF k > Len(classes) THEN langGroups
    ELSE categorizeClasses(pushClass(langGroups, classes[k], i), classes, k + 1, i)

RECURSIVE categorize(_, _, _, _)
categorize(langGroups, fs, sel, n) ==
    IF n > Len(sel) THEN langGroups
    ELSE categorize(categorizeClasses(langGroups, fs[sel[n]].classes, 1, sel[n]),
                    fs, sel, n + 1)

\* The test with the length check lost: every language is rendered.
populated_always(langGroups, lang) == TRUE

\* A language gets a header and a panel when its group is not empty.
populated(langGroups, lang) == Len(langGroups[lang.code]) > 0

tabHeader(lang) ==
    [lang |-> lang.code, class |-> lang.class, name |-> lang.name,
     active |-> FALSE, title |-> ""]

createHeaders(langGroups) ==
    LET langs == SelectSeq(Languages, LAMBDA lang : populated(langGroups, lang))
    IN  [h \in DOMAIN langs |-> tabHeader(langs[h])]

\* fieldset.find('.module') when it finds something, else fieldset.children().
contentOf(fieldset) ==
    LET modules == SelectSeq(fieldset.children, LAMBDA c : c.module)
    IN  IF Len(modules) > 0 THEN modules ELSE fieldset.children

\* What stays in the fieldset once contentOf(fieldset) has been appended elsewhere.
remainderOf(fieldset) ==
    LET modules == SelectSeq(fieldset.children, LAMBDA c : c.module)
    IN  IF Len(modules) > 0
        THEN SelectSeq(fieldset.children, LAMBDA c : ~c.module)
        ELSE <<>>

\* The loop step without fieldset.hide().
moveFieldset_noHide(st, i) ==
    [fs      |-> [st.fs EXCEPT ![i] = [@ EXCEPT !.children = remainderOf(st.fs[i])]],
     content |-> st.content \o contentOf(st.fs[i])]

\* One step of the loop over a language's group: move the content, hide the shell.
moveFieldset(st, i) ==
    [fs      |-> [st.fs EXCEPT ![i] = [@ EXCEPT !.children = remainderOf(st.fs[i]),
                                                !.hidden = TRUE]],
     content |-> st.content \o contentOf(st.fs[i])]

RECURSIVE moveGroup(_, _, _)
moveGroup(st, group, n) ==
    IF n > Len(group) THEN st
    ELSE moveGroup(moveFieldset(st, group[n]), group, n + 1)

tabContent(lang, content) == [lang |-> lang.code, active |-> FALSE, content |-> content]

\* The loop that creates the panels; st is [fs, contents].
RECURSIVE createContents(_, _, _)
createContents(st, langGroups, l) ==
    IF l > Len(Languages) THEN st
    ELSE IF populated(langGroups, Languages[l])
         THEN LET moved == moveGroup([fs |-> st.fs, content |-> <<>>],
                                     langGroups[Languages[l].code], 1)
              IN  createContents([fs |-> moved.fs,
                                  contents |-> Append(st.contents,
                                                      tabContent(Languages[l], moved.content))],
                                 langGroups, l + 1)
         ELSE createContents(st, langGroups, l + 1)

\* target.before(node)
RECURSIVE before(_, _, _)
before(d, target, node) ==
    IF d = <<>> THEN <<>>
    ELSE IF Head(d) = target THEN <<node>> \o d
         ELSE <<Head(d)>> \o before(Tail(d), target, node)

hasHeader(headers, langCode) == \E h \in DOMAIN headers : headers[h].lang = langCode

\* The first tab without the stored selection: always English.
initialTab_alwaysEn(headers, ls) == "en"

\* The tab shown first: the stored one, or English when it has no header.
initialTab(headers, ls) ==
    LET selectedTab == getSelectedTab(ls)
    IN  IF ~hasHeader(headers, selectedTab) THEN "en" ELSE selectedTab

\* The whole function: the new fieldsets, document, strips and click bindings.
initMultilingualTabs(fs, d, ls) ==
    LET langFieldsets == selectLangTab(fs)
    IN  IF Len(langFieldsets) = 0
        THEN [fieldsets |-> fs, doc |-> d, headers |-> <<>>, contents |-> <<>>,
              click |-> {}, storage |-> ls]
        ELSE LET langGroups == categorize(emptyLangGroups, fs, langFieldsets, 1)
                 headers    == createHeaders(langGroups)
                 built      == createContents([fs |-> fs, contents |-> <<>>], langGroups, 1)
                 ui         == switchToTab([headers |-> headers, contents |-> built.contents],
                                           initialTab(headers, ls))
             IN  [fieldsets |-> built.fs,
                  doc       |-> before(d, FieldsetNode(langFieldsets[1]), TabsContainer),
                  headers   |-> ui.headers,
                  contents  |-> ui.contents,
                  click     |-> {headers[h].lang : h \in DOMAIN headers},
                  storage   |-> switchToTabStorage(ls, initialTab(headers, ls))]

\* The keyboard shortcut hints set at the end of the ready callback.
addTitles(headers) ==
    [h \in DOMAIN headers |->
        IF headers[h].lang = "en" THEN [headers[h] EXCEPT !.title = "English (Ctrl+1)"]
        ELSE IF headers[h].lang = "mk" THEN [headers[h] EXCEPT !.title = "Makedonski (Ctrl+2)"]
        ELSE headers[h]]

\* The keydown handler's switch: the tab a key press selects, "" for none.
keyTarget(mod, which) ==
    IF mod
    THEN CASE which = Key1 -> "en"
           [] which = Key2 -> "mk"
           [] OTHER        -> ""
    ELSE ""

----------------------------------------------------------------------------
\* The state machine

Init ==
    /\ page \in Pages
    /\ fieldsets = Render(page)
    /\ doc = [i \in DOMAIN page |-> FieldsetNode(i)]
    /\ tabHeaders = <<>>
    /\ tabContents = <<>>
    /\ localStorage \in Storages
    /\ handlers = NoHandlers
    /\ pc = "loading"
    /\ last = NoEvent
    /\ scans = 0
    /\ lastClick = ""
    /\ input = FALSE

\* The callback passed to $(document).ready.
DocumentReady ==
    /\ pc = "loading"
    /\ LET r == initMultilingualTabs(fieldsets, doc, localStorage)
       IN  /\ fieldsets' = r.fieldsets
           /\ doc' = r.doc
           /\ tabHeaders' = addTitles(r.headers)
           /\ tabContents' = r.contents
           /\ handlers' = [click |-> r.click, keydown |-> TRUE, timer |-> TRUE]
           /\ localStorage' = r.storage
    /\ pc' = "ready"
    /\ last' = [NoEvent EXCEPT !.op = "ready"]
    /\ UNCHANGED <<page, scans, lastClick, input>>

\* A click on the header of language lang.
Click(lang) ==
    /\ pc = "ready"
    /\ lang \in handlers.click
    /\ LET selectedLang == lang
           ui == switchToTab([headers |-> tabHeaders, contents |-> tabContents], selectedLang)
       IN  /\ tabHeaders' = ui.headers
           /\ tabContents' = ui.contents
           /\ localStorage' = saveSelectedTab(switchToTabStorage(localStorage, selectedLang),
                                               selectedLang)
    /\ last' = [NoEvent EXCEPT !.op = "click", !.lang = lang]
    /\ lastClick' = lang
    /\ input' = TRUE
    /\ UNCHANGED <<page, fieldsets, doc, handlers, pc, scans>>

\* A key press anywhere in the document.
KeyDown(mod, which) ==
    /\ pc = "ready"
    /\ handlers.keydown
    /\ LET target == keyTarget(mod, which)
           ui == IF target # ""
                 THEN switchToTab([headers |-> tabHeaders, contents |-> tabContents], target)
                 ELSE [headers |-> tabHeaders, contents |-> tabContents]
       IN  /\ tabHeaders' = ui.headers
           /\ tabContents' = ui.contents
           /\ localStorage' = IF target # ""
                              THEN switchToTabStorage(localStorage, target)
                              ELSE localStorage
    /\ last' = [NoEvent EXCEPT !.op = "keydown", !.which = which, !.mod = mod]
    /\ input' = TRUE
    /\ UNCHANGED <<page, fieldsets, doc, handlers, pc, scans, lastClick>>

\* The timer set in the ready callback fires.
ErrorScan ==
    /\ pc = "ready"
    /\ handlers.timer
    /\ LET ui == showTabWithErrors([headers |-> tabHeaders, contents |-> tabContents])
       IN  /\ tabHeaders' = ui.headers
           /\ tabContents' = ui.contents
    /\ localStorage' = showTabWithErrorsStorage([headers |-> tabHeaders, contents |-> tabContents],
                                                localStorage)
    /\ handlers' = afterTimeout(handlers)
    /\ last' = [NoEvent EXCEPT !.op = "scan"]
    /\ scans' = scans + 1
    /\ UNCHANGED <<page, fieldsets, doc, pc, lastClick, input>>

\* The form is loaded again: a fresh document, the same storage.
Reload ==
    /\ pc = "ready"
    /\ fieldsets' = Render(page)
    /\ doc' = [i \in DOMAIN page |-> FieldsetNode(i)]
    /\ tabHeaders' = <<>>
    /\ tabContents' = <<>>
    /\ handlers' = NoHandlers
    /\ pc' = "loading"
    /\ last' = NoEvent
    /\ scans' = 0
    /\ input' = FALSE
    /\ UNCHANGED <<page, localStorage, lastClick>>

Next ==
    \/ DocumentReady
    \/ \E lang \in {"en", "mk"} : Click(lang)
    \/ \E k \in KeyPresses : KeyDown(k[1], k[2])
    \/ ErrorScan
    \/ Reload

Spec == Init /\ [][Next]_vars

----------------------------------------------------------------------------
\* Vocabulary of the properties

Range(f) == {f[x] : x \in DOMAIN f}

ActiveHeaders == {h \in DOMAIN tabHeaders : tabHeaders[h].active}
ActivePanels == {c \in DOMAIN tabContents : tabContents[c].active}

HeadersFor(code) == {h \in DOMAIN tabHeaders : tabHeaders[h].lang = code}
PanelsFor(code) == {c \in DOMAIN tabContents : tabContents[c].lang = code}

\* The fieldsets of the served page that carry the marker class.
MarkedGroups == {i \in DOMAIN page : "lang-tab" \in Range(page[i].classes)}

\* Marked group i carries the class of language descriptor lang.
Tagged(i, lang) == i \in MarkedGroups /\ lang.class \in Range(page[i].classes)

KnownLanguages == Range(Languages)

\* The per-language classes pages are rendered with.
LanguageClasses == {"lang-en", "lang-mk", "lang-fr"}

\* initialize() has just returned.
AfterInitialize == pc = "ready" /\ last.op = "ready"

\* The tab UI is in the document.
Built == pc = "ready" /\ TabsContainer \in Range(doc)

StoredSelection ==
    IF "selectedLangTab" \in DOMAIN localStorage
    THEN <<localStorage["selectedLangTab"]>>
    ELSE <<>>

PanelsWithErrors ==
    {c \in DOMAIN tabContents :
        \E j \in DOMAIN tabContents[c].content : tabContents[c].content[j].error}

\* What the served page looks like before the script touches it.
Untouched ==
    /\ fieldsets = Render(page)
    /\ doc = [i \in DOMAIN page |-> FieldsetNode(i)]
    /\ tabHeaders = <<>>
    /\ tabContents = <<>>

----------------------------------------------------------------------------
\* C1: in every reachable state at most one tab header and at most one tab
\* panel carry the active class.
C1_AtMostOneActive ==
    /\ Cardinality(ActiveHeaders) <= 1
    /\ Cardinality(ActivePanels) <= 1

\* A switch between two rendered tabs has happened and left one active.
C1_Witness ==
    /\ last.op = "keydown"
    /\ Len(tabHeaders) = 2
    /\ ActiveHeaders = HeadersFor("mk")
    /\ ActivePanels = PanelsFor("mk")
    /\ StoredSelection = <<"en">>

\* C2: on a page with at least one marked field group, whatever the storage
\* holds, initialize() ends with a tab active, and that tab is "en" when the
\* stored code has no rendered header.
C2_InitializeActivatesATab ==
    (AfterInitialize /\ MarkedGroups # {}) =>
        /\ ActiveHeaders # {}
        /\ ActivePanels # {}
        /\ (HeadersFor(getSelectedTab(localStorage)) = {} => ActiveHeaders = HeadersFor("en"))

\* C3: once the tab UI has been built, exactly one header and exactly one
\* panel carry the active class in every reachable state.
C3_ExactlyOneActive ==
    Built =>
        /\ Cardinality(ActiveHeaders) = 1
        /\ Cardinality(ActivePanels) = 1

\* C4: after modifier+2 the "mk" panel is the active panel and "mk" is the
\* persisted selection.
C4_Modifier2ActivatesAndPersistsMk ==
    (last.op = "keydown" /\ last.mod /\ last.which = Key2) =>
        /\ ActivePanels # {}
        /\ ActivePanels = PanelsFor("mk")
        /\ StoredSelection = <<"mk">>

\* C5: after a click on the header of language L, L's header and panel are the
\* active ones and the persisted selection is L.
C5_ClickActivatesAndPersists ==
    last.op = "click" =>
        /\ HeadersFor(last.lang) # {}
        /\ PanelsFor(last.lang) # {}
        /\ ActiveHeaders = HeadersFor(last.lang)
        /\ ActivePanels = PanelsFor(last.lang)
        /\ StoredSelection = <<last.lang>>

\* A click on "mk" on a page that also renders "en".
C5_Witness ==
    /\ last.op = "click"
    /\ last.lang = "mk"
    /\ HeadersFor("en") # {}
    /\ ActivePanels = PanelsFor("mk")

\* C6: when the error scan has run and some panel contains an error marker,
\* the first such panel in construction order is the active panel.
C6_ScanActivatesFirstErrorPanel ==
    (last.op = "scan" /\ PanelsWithErrors # {}) =>
        LET first == CHOOSE c \in PanelsWithErrors : \A d \in PanelsWithErrors : c <= d
        IN  /\ ActivePanels = {first}
            /\ ActiveHeaders = HeadersFor(tabContents[first].lang)
            /\ Cardinality(ActiveHeaders) = 1

\* Both panels hold an error, "mk" is the persisted selection, and the scan
\* has made "en" active.
C6_Witness ==
    /\ last.op = "scan"
    /\ Cardinality(PanelsWithErrors) = 2
    /\ StoredSelection = <<"mk">>
    /\ ActivePanels = PanelsFor("en")
    /\ PanelsFor("en") # {}

\* C7: on a page with no marked field group, initialize() inserts nothing and
\* hides nothing: the document is as it was served.
C7_NoMarkedGroupsNoChange ==
    (AfterInitialize /\ MarkedGroups = {}) => Untouched

\* initialize() has run on a page that has fieldsets, none of them marked.
C7_Witness ==
    /\ AfterInitialize
    /\ MarkedGroups = {}
    /\ Len(page) >= 2
    /\ Untouched

\* C8: after initialize() on a page with a marked field group, each known
\* language has exactly one header and one panel when a field group is tagged
\* with it, and none otherwise.
C8_HeaderAndPanelIffTagged ==
    (AfterInitialize /\ MarkedGroups # {}) =>
        \A lang \in KnownLanguages :
            LET n == IF \E i \in DOMAIN page : Tagged(i, lang) THEN 1 ELSE 0
            IN  /\ Cardinality(HeadersFor(lang.code)) = n
                /\ Cardinality(PanelsFor(lang.code)) = n

\* A page whose marked groups are tagged with "mk" and with an unknown
\* language only: one header, one panel, both for "mk".
C8_Witness ==
    /\ AfterInitialize
    /\ \E i \in DOMAIN page : Tagged(i, Languages[2])
    /\ \E i \in MarkedGroups : "lang-fr" \in Range(page[i].classes)
    /\ ~ \E i \in DOMAIN page : Tagged(i, Languages[1])
    /\ Len(tabHeaders) = 1
    /\ Len(tabContents) = 1
    /\ HeadersFor("mk") = {1}

\* C9 as stated: after initialize() on a page with a marked field group, every
\* marked field group is hidden and still in the document.
C9_EveryMarkedGroupHidden ==
    (AfterInitialize /\ MarkedGroups # {}) =>
        \A i \in MarkedGroups :
            /\ fieldsets[i].hidden
            /\ FieldsetNode(i) \in Range(doc)

\* C9 amended: after initialize() on a page with a marked field group, every
\* marked field group is still in the document, and it is hidden exactly when
\* it is tagged with a known language; unmarked fieldsets are never hidden.
C9_KnownLanguageGroupsHidden ==
    (AfterInitialize /\ MarkedGroups # {}) =>
        /\ \A i \in DOMAIN page : FieldsetNode(i) \in Range(doc)
        /\ \A i \in DOMAIN page :
               fieldsets[i].hidden <=> \E lang \in KnownLanguages : Tagged(i, lang)

\* A page with a hidden "en" group and a marked group of an unknown language
\* that stays visible.
C9_Witness ==
    /\ AfterInitialize
    /\ \E i \in MarkedGroups : fieldsets[i].hidden
    /\ \E i \in MarkedGroups :
           /\ "lang-fr" \in Range(page[i].classes)
           /\ ~fieldsets[i].hidden

\* Marked group i carries exactly one per-language class.
ExactlyOneLanguageClass(i) ==
    Cardinality({k \in DOMAIN page[i].classes : page[i].classes[k] \in LanguageClasses}) = 1

\* The moved content of the groups tagged with lang among the first n
\* fieldsets, in document order.
RECURSIVE ContentOfTagged(_, _)
ContentOfTagged(lang, n) ==
    IF n = 0 THEN <<>>
    ELSE ContentOfTagged(lang, n - 1)
         \o (IF Tagged(n, lang) THEN contentOf(Render(page)[n]) ELSE <<>>)

\* C10: after initialize() on a page whose field groups are each tagged with
\* exactly one language class, the panel of each known language holds the moved
\* content of exactly the groups tagged with that language, in document order.
C10_PanelHoldsItsGroupsContent ==
    (AfterInitialize /\ \A i \in MarkedGroups : ExactlyOneLanguageClass(i)) =>
        \A c \in DOMAIN tabContents :
            \E lang \in KnownLanguages :
                /\ lang.code = tabContents[c].lang
                /\ tabContents[c].content = ContentOfTagged(lang, Len(page))
                /\ \A j \in DOMAIN tabContents[c].content :
                       Tagged(tabContents[c].content[j].from, lang)

\* Two "en" groups and one "mk" group: the "en" panel holds the content of
\* groups 1 and 3 in that order, the "mk" panel that of group 2.
C10_Witness ==
    /\ AfterInitialize
    /\ Len(page) = 3
    /\ Tagged(1, Languages[1]) /\ Tagged(2, Languages[2]) /\ Tagged(3, Languages[1])
    /\ \A i \in MarkedGroups : ExactlyOneLanguageClass(i)
    /\ Len(tabContents) = 2
    /\ [j \in DOMAIN tabContents[1].content |-> tabContents[1].content[j].from] = <<1, 3>>
    /\ [j \in DOMAIN tabContents[2].content |-> tabContents[2].content[j].from] = <<2>>

----------------------------------------------------------------------------
\* The strips as they are now.
CurrentUi == [headers |-> tabHeaders, contents |-> tabContents]

ActiveIn(elems) == {i \in DOMAIN elems : elems[i].active}

\* The codes switchToTab is tried with: the two known ones, one with no tab
\* on any page, and the empty string.
SwitchCodes == {"en", "mk", "fr", ""}

\* C11: once a header click has persisted a language code, loadSelection()
\* returns that code, in the same page load and in every later one, until the
\* next click; and it returns "en" while the key has never been written.
C11_PersistThenLoadRoundTrip ==
    /\ lastClick # "" => getSelectedTab(localStorage) = lastClick
    /\ \A c \in {"en", "mk"} : getSelectedTab(saveSelectedTab(localStorage, c)) = c
    /\ "selectedLangTab" \notin DOMAIN localStorage => getSelectedTab(localStorage) = "en"

\* A fresh page load, before initialize(), after a click on "mk" in an
\* earlier load: the stored code reads back "mk".
C11_Witness ==
    /\ pc = "loading"
    /\ lastClick = "mk"
    /\ getSelectedTab(localStorage) = "mk"

\* C12: from any reachable state and for any code, switchToTab(code) applied
\* twice leaves the same active headers and panels as applied once.
C12_SwitchToTabIdempotent ==
    \A code \in SwitchCodes :
        LET once  == switchToTab(CurrentUi, code)
            twice == switchToTab(once, code)
        IN  /\ ActiveIn(twice.headers) = ActiveIn(once.headers)
            /\ ActiveIn(twice.contents) = ActiveIn(once.contents)
            /\ twice = once

\* "en" is active after modifier+1 on a page with both tabs, so that a switch
\* to "mk" changes the strips and a second one must not.
C12_Witness ==
    /\ last.op = "keydown" /\ last.mod /\ last.which = Key1
    /\ Len(tabHeaders) = 2
    /\ ActiveHeaders = HeadersFor("en")
    /\ ActiveIn(switchToTab(CurrentUi, "mk").headers) = HeadersFor("mk")
    /\ switchToTab(CurrentUi, "mk") # CurrentUi

\* C13: when no panel contains an error marker, the step in which the error
\* scan runs leaves every header and every panel as it was.
C13_ScanWithoutErrorsChangesNothing ==
    [][(scans' = scans + 1 /\ PanelsWithErrors = {}) =>
           /\ tabHeaders' = tabHeaders
           /\ tabContents' = tabContents
           /\ ActiveHeaders' = ActiveHeaders
           /\ ActivePanels' = ActivePanels]_vars

\* The scan has run on a page with both tabs and no error in either panel,
\* and "mk", not the first panel, is still the active one.
C13_Witness ==
    /\ last.op = "scan"
    /\ scans = 1
    /\ PanelsWithErrors = {}
    /\ Len(tabContents) = 2
    /\ ActivePanels = PanelsFor("mk")
    /\ ActiveHeaders = HeadersFor("mk")

\* C14: switchToTab(code) with a code that has no rendered header and panel
\* leaves no header and no panel active, from every reachable state; so it is
\* after modifier+1 / modifier+2 for a language without a tab.
C14_UnknownCodeLeavesNothingActive ==
    /\ \A code \in SwitchCodes :
           (HeadersFor(code) = {} /\ PanelsFor(code) = {}) =>
               LET after == switchToTab(CurrentUi, code)
               IN  /\ ActiveIn(after.headers) = {}
                   /\ ActiveIn(after.contents) = {}
    /\ (last.op = "keydown" /\ last.mod /\ last.which = Key1 /\ HeadersFor("en") = {}) =>
           (ActiveHeaders = {} /\ ActivePanels = {})
    /\ (last.op = "keydown" /\ last.mod /\ last.which = Key2 /\ HeadersFor("mk") = {}) =>
           (ActiveHeaders = {} /\ ActivePanels = {})

\* modifier+2 on a page that renders only the "en" tab, pressed after a click
\* had made "en" active: nothing is active now.
C14_Witness ==
    /\ last.op = "keydown" /\ last.mod /\ last.which = Key2
    /\ lastClick = "en"
    /\ input
    /\ HeadersFor("en") # {}
    /\ HeadersFor("mk") = {}
    /\ ActiveHeaders = {}
    /\ ActivePanels = {}

\* C15: in each page load the error scan runs at most once and only after
\* initialize() has completed; until it has run it stays pending whatever
\* clicks and key presses happen, and once it has run it cannot run again.
C15_ScanSafety ==
    /\ scans <= 1
    /\ pc = "loading" => (scans = 0 /\ ~handlers.timer /\ ~ENABLED ErrorScan)
    /\ (pc = "ready" /\ scans = 0) => (handlers.timer /\ ENABLED ErrorScan)
    /\ scans = 1 => (pc = "ready" /\ ~handlers.timer /\ ~ENABLED ErrorScan)

\* Largest number of fieldsets on a page of the single-load specification.
MaxOneLoadFieldsets == 2

\* One page load that is not left before its timer is due: the event loop
\* runs the pending timer, whatever clicks and key presses it also serves.
OneLoadInit ==
    /\ Init
    /\ Len(page) <= MaxOneLoadFieldsets

OneLoadNext ==
    \/ DocumentReady
    \/ \E lang \in {"en", "mk"} : Click(lang)
    \/ \E k \in KeyPresses : KeyDown(k[1], k[2])
    \/ ErrorScan

OneLoadSpec ==
    /\ OneLoadInit
    /\ [][OneLoadNext]_vars
    /\ WF_vars(ErrorScan)

\* C15: the error scan runs exactly once per page load, after initialize():
\* the safety half above, and once initialize() has completed the scan does run.
C15_ScanRunsExactlyOnce ==
    /\ []C15_ScanSafety
    /\ (pc = "ready") ~> (scans = 1)

\* The scan has run once although a click and then a key press came first.
C15_Witness ==
    /\ last.op = "scan"
    /\ scans = 1
    /\ input
    /\ lastClick # ""
    /\ ~handlers.timer

\* C16: when the last header click, in an earlier page load, selected L, and
\* this page load renders a header for L and no panel contains an error
\* marker, then without user input in this load L is the active tab after
\* initialize() and still after the error scan.
C16_LastClickRestoredOnNextLoad ==
    (/\ pc = "ready"
     /\ ~input
     /\ lastClick # ""
     /\ HeadersFor(lastClick) # {}
     /\ PanelsWithErrors = {}) =>
        /\ last.op \in {"ready", "scan"}
        /\ ActiveHeaders = HeadersFor(lastClick)
        /\ ActivePanels = PanelsFor(lastClick)
        /\ PanelsFor(lastClick) # {}

\* "mk" was clicked in an earlier load; this load has both tabs, no errors and
\* no input, its scan has run, and "mk" is active.
C16_Witness ==
    /\ last.op = "scan"
    /\ ~input
    /\ lastClick = "mk"
    /\ HeadersFor("en") # {}
    /\ PanelsWithErrors = {}
    /\ ActiveHeaders = HeadersFor("mk")
    /\ ActivePanels = PanelsFor("mk")

\* C17: in every reachable state the header of a language carries the active
\* class exactly when the panel of that language does.
C17_ActiveHeaderAndPanelPaired ==
    \A code \in {tabHeaders[h].lang : h \in DOMAIN tabHeaders}
              \cup {tabContents[c].lang : c \in DOMAIN tabContents} :
        (\E h \in ActiveHeaders : tabHeaders[h].lang = code)
            <=> (\E c \in ActivePanels : tabContents[c].lang = code)

\* After a click on "en", the scan has moved both the header and the panel
\* designation to "mk", the only panel with an error.
C17_Witness ==
    /\ last.op = "scan"
    /\ lastClick = "en"
    /\ input
    /\ HeadersFor("en") # {}
    /\ PanelsWithErrors = PanelsFor("mk")
    /\ ActiveHeaders = HeadersFor("mk")
    /\ ActivePanels = PanelsFor("mk")
    /\ PanelsFor("mk") # {}

\* C18: the step that runs initialize() and the step that runs the error scan
\* leave the persisted selection as it was.
C18_InitializeAndScanDoNotPersist ==
    [][((pc = "loading" /\ pc' = "ready") \/ scans' = scans + 1) =>
           localStorage' = localStorage]_vars

\* initialize() has fallen back to "en" while "fr" is still what is stored.
C18_Witness ==
    /\ AfterInitialize
    /\ StoredSelection = <<"fr">>
    /\ HeadersFor("en") # {}
    /\ ActiveHeaders = HeadersFor("en")
    /\ ActivePanels = PanelsFor("en")

====
